---- MODULE Spec2Model ----
(***************************************************************************)
(* Pocket Drums (src/app.js): the audio engine's state and handlers as a   *)
(* state machine.  Time is in milliseconds; `now` stands for both the      *)
(* audio clock (ctx.currentTime) and the wall clock (Date.now, timers).    *)
(* Gain levels are in units of 0.0001 (0.6 = 6000).                        *)
(* DOM decoration with no effect on the engine (class lists, labels, the   *)
(* metronome's visual pulse, the haptic pulse) is left out.                *)
(***************************************************************************)
EXTENDS Integers, Sequences, FiniteSets, TLC

\* ---------------------------------------------------------------- bounds
MaxPadInputs == 3      \* pad / key / pointer / touch events per behaviour
MaxKitSwitches == 1    \* kit button clicks per behaviour
MaxToggles == 3        \* metronome button clicks per behaviour
MaxTempoChanges == 1   \* tempo slider inputs per behaviour
MaxRecToggles == 3     \* record button clicks per behaviour
MaxChokeTime == 100    \* ms of simulated time in the choke specification
MaxRecTime == 61000    \* ms of simulated time in the recorder specification
EarlyClicks == 500     \* there, the early record clicks come up to this time
MaxTime == 600         \* ms of simulated time in the short specifications
MaxWindowTime == 10600 \* ms of simulated time in the ten-second specification
ToggleBy == 50         \* there, the button and the slider are used up to this time
MaxFileTime == 250     \* ms of simulated time in the download specification
MaxPressTime == 550    \* ms of simulated time in the long-press specification
MaxMixerInputs == 2    \* mixer slider inputs per behaviour
MaxPadEnds == 2        \* touchend / pointerup events per behaviour
MaxFileClicks == 2     \* clear and download calls per behaviour
MaxSaves == 3          \* latency save clicks per behaviour
MaxLoads == 2          \* page loads after the first per behaviour

\* ------------------------------------------------------ program constants
lookahead == 25            \* state.lookahead, ms
scheduleAheadTime == 120   \* state.scheduleAheadTime, 0.12 s
leadIn == 50               \* nextTick seed: currentTime + 0.05
longPressMs == 220         \* state.longPressMs
maxRecSec == 60            \* state.maxRecSec
recPoll == 250             \* setTimeout(tick, 250)
chokeRestoreMs == 30       \* chokeHiHat's setTimeout delay
chokeTau == 10             \* setTargetAtTime(0.0001, t, 0.01)
restoreTau == 50           \* setTargetAtTime(default, t, 0.05)
chokeTarget == 1           \* 0.0001

PADS == <<"kick", "snare", "hatC", "hatO", "hatP",
          "tom1", "tom2", "tom3", "crash", "ride">>

PadIds == {PADS[i] : i \in 1..Len(PADS)}

Kits == {"rock", "jazz"}

\* line 423: the encodings preferredMime tries, in order
types == <<"audio/webm;codecs=opus", "audio/ogg;codecs=opus", "audio/mp4",
           "audio/webm">>

MimeTypes == {types[i] : i \in 1..Len(types)}

\* the pads, pointer types and touch forces (percent) the inputs are drawn from
InputPads == {"kick", "hatC", "hatO"}
PointerTypes == {"mouse", "touch", "pen"}
Forces == {0, 50, 100}

defaultPadGain(id) ==
  CASE id = "kick" -> 9000
    [] id = "snare" -> 8500
    [] id = "hatC" -> 6000
    [] id = "hatO" -> 6000
    [] id = "hatP" -> 5000
    [] id \in {"tom1", "tom2", "tom3"} -> 8000
    [] id \in {"crash", "ride"} -> 6500
    [] OTHER -> 7000

clamp(x, min, max) ==
  LET lo == IF max < x THEN max ELSE x IN IF min > lo THEN min ELSE lo

\* ------------------------------------------------------ texts and numbers
\* a text is a sequence of characters; null is what getItem returns for an
\* absent item; a number is an integer or NaN
null == <<"null">>

NaN == [nan |-> TRUE, n |-> 0]

Num(n) == [nan |-> FALSE, n |-> n]

Digits == <<"0", "1", "2", "3", "4", "5", "6", "7", "8", "9">>

isDigit(c) == \E d \in 1..Len(Digits) : Digits[d] = c

digitOf(c) == (CHOOSE d \in 1..Len(Digits) : Digits[d] = c) - 1

\* a || b on texts: null and '' are falsy
or(a, b) == IF a = null \/ a = <<>> THEN b ELSE a

\* x || d on numbers: NaN and 0 are falsy
orNum(x, d) == IF x.nan \/ x.n = 0 THEN Num(d) ELSE x

RECURSIVE trimStart(_)
trimStart(s) == IF s # <<>> /\ Head(s) = " " THEN trimStart(Tail(s)) ELSE s

RECURSIVE digitPrefix(_)
digitPrefix(s) ==
  IF s # <<>> /\ isDigit(Head(s)) THEN <<Head(s)>> \o digitPrefix(Tail(s))
  ELSE <<>>

RECURSIVE digitsValue(_, _)
digitsValue(ds, acc) ==
  IF ds = <<>> THEN acc ELSE digitsValue(Tail(ds), 10 * acc + digitOf(Head(ds)))

\* parseInt(s, 10): leading blanks are skipped, a sign is read, then the
\* longest run of digits; anything after it is ignored, and with no digit
\* at all the result is NaN
parseInt(s) ==
  LET t == trimStart(s)
      neg == t # <<>> /\ Head(t) = "-"
      body == IF t # <<>> /\ Head(t) \in {"-", "+"} THEN Tail(t) ELSE t
      ds == digitPrefix(body)
  IN IF ds = <<>> THEN NaN
     ELSE Num(IF neg THEN 0 - digitsValue(ds, 0) ELSE digitsValue(ds, 0))

RECURSIVE digitsOf(_)
digitsOf(n) ==
  IF n < 10 THEN <<Digits[n + 1]>>
  ELSE digitsOf(n \div 10) \o <<Digits[(n % 10) + 1]>>

\* String(x) for a number x
String(x) ==
  IF x.nan THEN <<"N", "a", "N">>
  ELSE IF x.n < 0 THEN <<"-">> \o digitsOf(0 - x.n)
  ELSE digitsOf(x.n)

VARIABLES
  now,          \* ctx.currentTime / Date.now(), ms
  ctx,          \* state.ctx is set
  created,      \* how many of each audio node were ever constructed
  buffers,      \* the kits assigned in state.buffers
  kit,          \* state.kit
  initRuns,     \* the initAudio invocations suspended at an await
  hydrated,     \* how often hydrateMixer ran
  initCalls,    \* how often initAudio was called
  touchOnce,    \* document touchstart {once} listener still registered
  pointerOnce,  \* document pointerdown {once} listener still registered
  lastPlay,     \* outcome of the latest playPad call
  nInputs,      \* user input events handled so far
  nPlayed,      \* buffer sources started so far
  budget,       \* user inputs of each kind still allowed by the bounds
  gainParam,    \* state.gains[id].gain: the AudioParam of each pad's gain
  chokeTimers,  \* pending restore timers of chokeHiHat
  pressTimer,   \* per pad: handle of the latest long-press timer
  isLong,       \* per pad: the closure's isLong flag
  pendingPress, \* pending long-press timers
  handles,      \* timer handles handed out so far
  isMetronomeOn, \* state.isMetronomeOn
  bpm,          \* state.bpm
  nextTick,     \* state.nextTick, ms
  clicks,       \* the `when` of every scheduleClick call so far, in call order
  schedTimers,  \* pending runScheduler timers: the time each was armed
  periodStart,  \* the clock time of the latest toggle to Running
  periodFrom,   \* Len(clicks) at the latest toggle to Running
  steadyTempo,  \* no tempo input since the latest toggle to Running
  chokedAt,     \* the time of the latest playPad that choked, or -1
  supported,    \* the types MediaRecorder.isTypeSupported accepts
  recording,    \* state.recording
  recorders,    \* every MediaRecorder constructed; state.recorder is the last
  chunks,       \* state.chunks
  recTicks,     \* pending elapsed-time poll timers of startRecording
  recFaults,    \* stop() calls on an absent or inactive recorder
  blobs,        \* the blob of every onRecStop call, in call order
  playback,     \* playback.src: 0 (none) or the index of a blob
  ctlDisabled,  \* playBtn / dlBtn / clearBtn disabled
  notSupported, \* MediaRecorder constructors that threw NotSupportedError
  cleared,      \* clearRecording ran and no onRecStop has run since
  fetches,      \* pending fetches of downloadRecording: the blob of each
  downloads,    \* the files downloaded so far, in order
  idleCalls,    \* downloadRecording calls since the latest clearRecording
                \* that found no source
  pressStart,   \* per pad: the time of the latest start event, or -1
  accentHeld,   \* how long the press was held whose end played the latest
                \* accent, or -1
  mixed,        \* per pad: the level the mixer set last, or -1
  latencyMs,    \* state.latencyMs
  stored,       \* localStorage's item 'latencyMs'
  lastSaved     \* whether the latency was ever saved, and the value saved last

audioVars == <<ctx, created, buffers, initRuns, hydrated, initCalls>>
playVars == <<lastPlay, nPlayed, chokeTimers, chokedAt>>
pressVars == <<pressTimer, isLong, pendingPress, handles, pressStart,
               accentHeld>>
metroVars == <<isMetronomeOn, bpm, nextTick, clicks, schedTimers,
               periodStart, periodFrom, steadyTempo>>
recVars == <<supported, recording, recorders, chunks, recTicks, recFaults,
             blobs, playback, ctlDisabled, notSupported, cleared, fetches,
             downloads, idleCalls>>
uiVars == <<mixed, latencyMs, stored, lastSaved>>

vars == <<now, ctx, created, buffers, kit, initRuns, hydrated, initCalls,
          touchOnce, pointerOnce, lastPlay, nInputs, nPlayed, budget, gainParam,
          chokeTimers, pressTimer, isLong, pendingPress, handles,
          isMetronomeOn, bpm, nextTick, clicks, schedTimers, periodStart,
          periodFrom, steadyTempo, chokedAt, supported, recording, recorders,
          chunks, recTicks, recFaults, blobs, playback, ctlDisabled,
          notSupported, cleared, fetches, downloads, idleCalls, pressStart,
          accentHeld,
          mixed, latencyMs, stored, lastSaved>>

\* ------------------------------------------------------------- AudioParam
\* round(10000 * e^(-k/10)), k = 0..70
ExpTable ==
  <<9048, 8187, 7408, 6703, 6065, 5488, 4966, 4493, 4066, 3679,
    3329, 3012, 2725, 2466, 2231, 2019, 1827, 1653, 1496, 1353,
    1225, 1108, 1003, 907, 821, 743, 672, 608, 550, 498,
    450, 408, 369, 334, 302, 273, 247, 224, 202, 183,
    166, 150, 136, 123, 111, 101, 91, 82, 74, 67,
    61, 55, 50, 45, 41, 37, 33, 30, 27, 25,
    22, 20, 18, 17, 15, 14, 12, 11, 10, 9>>

\* 10000 * e^(-dt/tau), for dt a multiple of tau/10
ExpDecay(dt, tau) ==
  LET k == (10 * dt) \div tau
  IN IF k <= 0 THEN 10000 ELSE IF k > Len(ExpTable) THEN 0 ELSE ExpTable[k]

\* an AudioParam holding the constant v
Constant(v) == [v0 |-> v, t0 |-> 0, target |-> v, tau |-> 0]

\* the value of AudioParam p at time t: a setTargetAtTime event approaches
\* its target exponentially from the value it started at
ValueAt(p, t) ==
  IF p.tau = 0 \/ t <= p.t0 THEN p.v0
  ELSE LET e == ExpDecay(t - p.t0, p.tau)
       IN IF p.v0 >= p.target
            THEN p.target + ((p.v0 - p.target) * e) \div 10000
            ELSE p.target - ((p.target - p.v0) * e) \div 10000

\* p.setTargetAtTime(target, t, tau) issued at time t
setTargetAtTime(p, target, t, tau) ==
  [v0 |-> ValueAt(p, t), t0 |-> t, target |-> target, tau |-> tau]

\* ------------------------------------------------------------- initAudio
\* line 60: `if (state.ctx) return;`
initAudioReturns_buffersGuard == buffers = Kits
initAudioReturns == ctx

\* initAudio up to its first await: the context, the master chain and the
\* per-pad gains are built synchronously, then the call is suspended at
\* `await synthKit(ctx, 'rock')`
initAudio ==
  /\ initCalls' = initCalls + 1
  /\ IF initAudioReturns THEN UNCHANGED <<ctx, created, buffers, initRuns, hydrated>>
     ELSE
       /\ ctx' = TRUE
       /\ created' = [AudioContext |-> created.AudioContext + 1,
                      master |-> created.master + 1,
                      recDest |-> created.recDest + 1,
                      padGain |-> [p \in PadIds |-> created.padGain[p] + 1]]
       /\ initRuns' = Append(initRuns, "rock")
       /\ UNCHANGED <<buffers, hydrated>>

\* state.gains after a call of initAudio, given the gains before it
gainsAfterInit(g) ==
  IF initAudioReturns THEN g
  ELSE [p \in PadIds |-> Constant(defaultPadGain(p))]

\* a suspended initAudio resumes: the awaited kit is assigned, and after the
\* second kit hydrateMixer runs and the call ends
InitResume(i) ==
  /\ i \in 1..Len(initRuns)
  /\ buffers' = buffers \cup {initRuns[i]}
  /\ IF initRuns[i] = "rock"
       THEN /\ initRuns' = [initRuns EXCEPT ![i] = "jazz"]
            /\ UNCHANGED hydrated
       ELSE /\ initRuns' = SubSeq(initRuns, 1, i - 1)
                             \o SubSeq(initRuns, i + 1, Len(initRuns))
            /\ hydrated' = hydrated + 1
  /\ UNCHANGED <<now, ctx, created, initCalls, kit, touchOnce, pointerOnce,
                 playVars, nInputs, budget, gainParam, pressVars, metroVars,
                 recVars, uiVars>>

\* --------------------------------------------------------------- playPad
\* what playPad(id, ..) does: "noop" (an early return), "threw"
\* (`kit[id]` with state.buffers[state.kit] undefined is a TypeError) or
\* "played"
playOutcome(id) ==
  IF ~ctx THEN "noop"
  ELSE IF kit \notin buffers THEN "threw"
  ELSE IF id \notin PadIds THEN "noop"
  ELSE "played"

chokes(id) == playOutcome(id) = "played" /\ id \in {"hatC", "hatP"}

\* state.gains.hatO.gain after chokeHiHat: pending events from `now` on are
\* cancelled and the gain heads for 0.0001 with a 10 ms time constant
chokeHiHat(g) ==
  [g EXCEPT !["hatO"] = setTargetAtTime(@, chokeTarget, now, chokeTau)]

\* state.gains after playPad(id, ..), given the gains before it
gainsAfterPlay(g, id) == IF chokes(id) THEN chokeHiHat(g) ELSE g

playPad(id, velocity) ==
  /\ lastPlay' = [id |-> id, velocity |-> velocity, outcome |-> playOutcome(id)]
  /\ nPlayed' = IF playOutcome(id) = "played" THEN nPlayed + 1 ELSE nPlayed
  /\ chokeTimers' = IF chokes(id) THEN Append(chokeTimers, now + chokeRestoreMs)
                    ELSE chokeTimers
  /\ chokedAt' = IF chokes(id) THEN now ELSE chokedAt

\* the 30 ms timer of chokeHiHat fires: the gain heads back for the default
ChokeRestore ==
  /\ chokeTimers # <<>>
  /\ now = Head(chokeTimers)
  /\ chokeTimers' = Tail(chokeTimers)
  /\ gainParam' = [gainParam EXCEPT !["hatO"] =
                     setTargetAtTime(@, defaultPadGain("hatO"), now, restoreTau)]
  /\ UNCHANGED <<now, audioVars, kit, touchOnce, pointerOnce, lastPlay,
                 nInputs, nPlayed, chokedAt, budget, pressVars, metroVars,
                 recVars, uiVars>>

\* ------------------------------------------------------------ pad events
vFromForce(force) ==
  IF force = 0 THEN 90 ELSE clamp(50 + (force * 80) \div 100, 50, 120)

\* one user input of kind k is handled; nInputs counts the touch, pointer
\* and key events and the metronome and record button clicks
input(k) ==
  /\ budget[k] > 0
  /\ budget' = [budget EXCEPT ![k] = @ - 1]
  /\ nInputs' = IF k \in {"pad", "toggle", "rec"} THEN nInputs + 1 ELSE nInputs

\* the pad's start handler (lines 288-298)
start(id, force) ==
  /\ isLong' = [isLong EXCEPT ![id] = FALSE]
  /\ handles' = handles + 1
  /\ pressTimer' = [pressTimer EXCEPT ![id] = handles + 1]
  /\ pendingPress' = pendingPress \cup
        {[pad |-> id, h |-> handles + 1, due |-> now + longPressMs]}
  /\ pressStart' = [pressStart EXCEPT ![id] = now]
  /\ accentHeld' = accentHeld
  /\ playPad(id, vFromForce(force))

\* the pad's end handler (lines 299-303): the timer of the latest start is
\* cleared, and a set isLong plays the accent
end(id) ==
  /\ pendingPress' = {t \in pendingPress : t.h # pressTimer[id]}
  /\ IF isLong[id]
       THEN /\ playPad(id, 120)
            /\ accentHeld' = now - pressStart[id]
       ELSE UNCHANGED <<playVars, accentHeld>>
  /\ UNCHANGED <<pressTimer, isLong, handles, pressStart>>

\* touchend or pointerup on a pad
PadEnd(id) ==
  /\ budget["end"] > 0
  /\ budget' = [budget EXCEPT !["end"] = @ - 1]
  /\ nInputs' = nInputs + 1
  /\ end(id)
  /\ gainParam' = IF isLong[id] THEN gainsAfterPlay(gainParam, id) ELSE gainParam
  /\ UNCHANGED <<now, audioVars, kit, touchOnce, pointerOnce, metroVars,
                 recVars, uiVars>>

\* a long-press timer fires (line 294)
PressTimerFire ==
  \E t \in pendingPress :
    /\ now = t.due
    /\ isLong' = [isLong EXCEPT ![t.pad] = TRUE]
    /\ pendingPress' = pendingPress \ {t}
    /\ UNCHANGED <<now, audioVars, kit, touchOnce, pointerOnce, playVars,
                   nInputs, budget, gainParam, pressTimer, handles, pressStart,
                   accentHeld, metroVars, recVars, uiVars>>

\* touchstart on a pad: the pad's listener, then the document's {once} one
PadTouchStart(id, force) ==
  /\ input("pad")
  /\ start(id, force)
  /\ IF touchOnce
       THEN /\ initAudio
            /\ gainParam' = gainsAfterInit(gainsAfterPlay(gainParam, id))
       ELSE /\ UNCHANGED audioVars
            /\ gainParam' = gainsAfterPlay(gainParam, id)
  /\ touchOnce' = FALSE
  /\ UNCHANGED <<now, kit, pointerOnce, metroVars, recVars, uiVars>>

\* pointerdown on a pad: the pad's listener, then the document's {once} one,
\* which calls initAudio for a mouse only
PadPointerDown(id, pointerType) ==
  /\ input("pad")
  /\ start(id, 0)
  /\ IF pointerOnce /\ pointerType = "mouse"
       THEN /\ initAudio
            /\ gainParam' = gainsAfterInit(gainsAfterPlay(gainParam, id))
       ELSE /\ UNCHANGED audioVars
            /\ gainParam' = gainsAfterPlay(gainParam, id)
  /\ pointerOnce' = FALSE
  /\ UNCHANGED <<now, kit, touchOnce, metroVars, recVars, uiVars>>

\* Space or Enter on a focused pad: start(e); the document's keydown
\* listener finds no pad for these keys
PadKeyDown(id) ==
  /\ input("pad")
  /\ start(id, 0)
  /\ gainParam' = gainsAfterPlay(gainParam, id)
  /\ UNCHANGED <<now, audioVars, kit, touchOnce, pointerOnce, metroVars,
                 recVars, uiVars>>

\* a pad's key on the keyboard (lines 314-317)
DocKeyDown(id) ==
  /\ input("pad")
  /\ playPad(id, 100)
  /\ gainParam' = gainsAfterPlay(gainParam, id)
  /\ UNCHANGED <<now, audioVars, kit, touchOnce, pointerOnce, pressVars,
                 metroVars, recVars, uiVars>>

\* touchstart outside the pads
DocTouchStart ==
  /\ input("pad")
  /\ touchOnce
  /\ initAudio
  /\ gainParam' = gainsAfterInit(gainParam)
  /\ touchOnce' = FALSE
  /\ UNCHANGED <<now, kit, pointerOnce, playVars, pressVars, metroVars,
                 recVars, uiVars>>

\* pointerdown outside the pads
DocPointerDown(pointerType) ==
  /\ input("pad")
  /\ pointerOnce
  /\ IF pointerType = "mouse"
       THEN initAudio /\ gainParam' = gainsAfterInit(gainParam)
       ELSE UNCHANGED <<audioVars, gainParam>>
  /\ pointerOnce' = FALSE
  /\ UNCHANGED <<now, kit, touchOnce, playVars, pressVars, metroVars,
                 recVars, uiVars>>

\* the kit button (lines 260-264)
KitSwitch ==
  /\ input("kit")
  /\ kit' = IF kit = "rock" THEN "jazz" ELSE "rock"
  /\ UNCHANGED <<now, audioVars, touchOnce, pointerOnce, playVars,
                 gainParam, pressVars, metroVars, recVars, uiVars>>

\* the levels the mixer sliders are moved to
MixLevels == {0, 3000, 10000}

\* a mixer slider (lines 276-279); the listener exists once hydrateMixer
\* has run; setting gain.value ends the automation and holds the value
MixerInput(id, v) ==
  /\ input("mix")
  /\ hydrated >= 1
  /\ IF ctx
       THEN /\ gainParam' = [gainParam EXCEPT ![id] = Constant(v)]
            /\ mixed' = [mixed EXCEPT ![id] = v]
       ELSE UNCHANGED <<gainParam, mixed>>
  /\ UNCHANGED <<now, audioVars, kit, touchOnce, pointerOnce, playVars,
                 pressVars, metroVars, recVars, latencyMs, stored, lastSaved>>

\* ------------------------------------------------------------------ Init
\* the state once the script has run, on a platform whose MediaRecorder
\* supports the encodings in s and whose localStorage holds st under
\* 'latencyMs'
Boot(s, st) ==
  /\ now = 0
  /\ ctx = FALSE
  /\ created = [AudioContext |-> 0, master |-> 0, recDest |-> 0,
                padGain |-> [p \in PadIds |-> 0]]
  /\ buffers = {}
  /\ kit = "rock"
  /\ initRuns = <<>>
  /\ hydrated = 0
  /\ initCalls = 0
  /\ touchOnce = TRUE
  /\ pointerOnce = TRUE
  /\ lastPlay = [id |-> "none", velocity |-> 0, outcome |-> "none"]
  /\ nInputs = 0
  /\ nPlayed = 0
  /\ budget = [pad |-> MaxPadInputs, kit |-> MaxKitSwitches,
               toggle |-> MaxToggles, tempo |-> MaxTempoChanges,
               rec |-> MaxRecToggles, mix |-> MaxMixerInputs,
               end |-> MaxPadEnds, file |-> MaxFileClicks,
               save |-> MaxSaves, load |-> MaxLoads]
  /\ gainParam = [p \in PadIds |-> Constant(0)]
  /\ chokeTimers = <<>>
  /\ pressTimer = [p \in PadIds |-> 0]
  /\ isLong = [p \in PadIds |-> FALSE]
  /\ pendingPress = {}
  /\ handles = 0
  /\ isMetronomeOn = FALSE
  /\ bpm = 120
  /\ nextTick = 0
  /\ clicks = <<>>
  /\ schedTimers = <<>>
  /\ periodStart = 0
  /\ periodFrom = 0
  /\ steadyTempo = TRUE
  /\ chokedAt = -1
  /\ supported = s
  /\ recording = FALSE
  /\ recorders = <<>>
  /\ chunks = <<>>
  /\ recTicks = <<>>
  /\ recFaults = 0
  /\ blobs = <<>>
  /\ playback = 0
  /\ ctlDisabled = TRUE
  /\ notSupported = 0
  /\ cleared = FALSE
  /\ fetches = <<>>
  /\ downloads = <<>>
  /\ idleCalls = 0
  /\ pressStart = [p \in PadIds |-> -1]
  /\ accentHeld = -1
  /\ mixed = [p \in PadIds |-> -1]
  /\ latencyMs = parseInt(or(st, <<"0">>))
  /\ stored = st
  /\ lastSaved = [saved |-> FALSE, n |-> 0]

\* every tested encoding supported, nothing stored
Init == Boot(MimeTypes, null)

\* ------------------------------------------------------------- metronome
\* the tempi the slider is moved to (each divides 60000 ms evenly)
Tempos == {60, 120, 240}

\* line 345: secondsPerBeat = 60.0 / state.bpm, in ms
secondsPerBeat(b) == 60000 \div b

\* the while loop of runScheduler (lines 346-349): the times passed to
\* scheduleClick when it starts with state.nextTick = nt at clock time t
RECURSIVE ticksDue(_, _, _)
ticksDue(nt, t, spb) ==
  IF nt < t + scheduleAheadTime
    THEN <<nt>> \o ticksDue(nt + spb, t, spb)
    ELSE <<>>

\* line 344: `if (!state.isMetronomeOn) return;`
runSchedulerReturns_never(on) == FALSE
runSchedulerReturns(on) == ~on

\* (scheduling from the time of the wake instead of from state.nextTick)
runScheduler_fromWake(on, nt, timers) ==
  IF runSchedulerReturns(on)
    THEN /\ clicks' = clicks
         /\ nextTick' = nt
         /\ schedTimers' = timers
    ELSE LET due == ticksDue(nt, now, secondsPerBeat(bpm))
         IN /\ clicks' = clicks \o due
            /\ nextTick' = IF due = <<>> THEN nt ELSE now + secondsPerBeat(bpm)
            /\ schedTimers' = Append(timers, now)

\* runScheduler called at time `now` with state.isMetronomeOn = on and
\* state.nextTick = nt; `timers` are the timers left pending by the caller
runScheduler(on, nt, timers) ==
  IF runSchedulerReturns(on)
    THEN /\ clicks' = clicks
         /\ nextTick' = nt
         /\ schedTimers' = timers
    ELSE LET due == ticksDue(nt, now, secondsPerBeat(bpm))
         IN /\ clicks' = clicks \o due
            /\ nextTick' = nt + Len(due) * secondsPerBeat(bpm)
            /\ schedTimers' = Append(timers, now)

\* the metronome button (lines 333-341)
MetroToggle ==
  /\ input("toggle")
  /\ IF ~ctx
       THEN initAudio /\ gainParam' = gainsAfterInit(gainParam)
       ELSE UNCHANGED <<audioVars, gainParam>>
  /\ isMetronomeOn' = ~isMetronomeOn
  /\ IF ~isMetronomeOn
       THEN /\ runScheduler(TRUE, now + leadIn, schedTimers)
            /\ periodStart' = now
            /\ periodFrom' = Len(clicks)
            /\ steadyTempo' = TRUE
       ELSE UNCHANGED <<nextTick, clicks, schedTimers, periodStart,
                        periodFrom, steadyTempo>>
  /\ UNCHANGED <<now, kit, touchOnce, pointerOnce, playVars, pressVars, bpm,
                 recVars, uiVars>>

\* a runScheduler timer fires, between one and two poll intervals after it
\* was armed; timers fire in the order they were armed
SchedulerWake ==
  /\ schedTimers # <<>>
  /\ now >= Head(schedTimers) + lookahead
  /\ runScheduler(isMetronomeOn, nextTick, Tail(schedTimers))
  /\ UNCHANGED <<now, audioVars, kit, touchOnce, pointerOnce, playVars,
                 nInputs, budget, gainParam, pressVars, isMetronomeOn, bpm,
                 periodStart, periodFrom, steadyTempo, recVars, uiVars>>

\* the tempo slider (lines 256-259)
TempoInput_reschedule(b) ==
  /\ input("tempo")
  /\ b # bpm
  /\ bpm' = b
  /\ steadyTempo' = FALSE
  /\ nextTick' = nextTick - secondsPerBeat(bpm) + secondsPerBeat(b)
  /\ UNCHANGED <<now, audioVars, kit, touchOnce, pointerOnce, playVars,
                 gainParam, pressVars, isMetronomeOn, clicks,
                 schedTimers, periodStart, periodFrom, recVars, uiVars>>

TempoInput(b) ==
  /\ input("tempo")
  /\ b # bpm
  /\ bpm' = b
  /\ steadyTempo' = FALSE
  /\ UNCHANGED <<now, audioVars, kit, touchOnce, pointerOnce, playVars,
                 gainParam, pressVars, isMetronomeOn, nextTick, clicks,
                 schedTimers, periodStart, periodFrom, recVars, uiVars>>

\* --------------------------------------------------------------- latency
\* what the latency field holds when Save is clicked
FieldTexts ==
  {<<>>, <<"0">>, <<"7">>, <<"1", "5">>, <<"-", "5">>, <<"2", "0", "0">>,
   <<"7", ".", "5">>, <<" ", "4", "2">>, <<"+", "3">>, <<"a", "b", "c">>,
   <<"3", "0">>, <<"-", "1", "2", "0">>, <<"1", "e", "3">>}

\* what localStorage may hold under 'latencyMs' when the page is first
\* loaded: nothing, or a text written there before
StoredTexts ==
  {null, <<>>, <<"0">>, <<"1", "5">>, <<"-", "5">>, <<"a", "b", "c">>,
   <<"1", "2", "m", "s">>, <<"N", "a", "N">>}

\* the Save button (lines 325-330)
SaveLatency(v) ==
  /\ input("save")
  /\ latencyMs' = orNum(parseInt(v), 0)
  /\ stored' = String(latencyMs')
  /\ lastSaved' = [saved |-> TRUE, n |-> latencyMs'.n]
  /\ mixed' = mixed
  /\ UNCHANGED <<now, audioVars, kit, touchOnce, pointerOnce, playVars,
                 gainParam, pressVars, metroVars, recVars>>

\* the page is loaded afresh: the script runs again (lines 15-35) and
\* localStorage is all that is left of the page before; the clock runs on
Reload ==
  /\ input("load")
  /\ latencyMs' = parseInt(or(stored, <<"0">>))
  /\ ctx' = FALSE
  /\ created' = [AudioContext |-> 0, master |-> 0, recDest |-> 0,
                 padGain |-> [p \in PadIds |-> 0]]
  /\ buffers' = {}
  /\ kit' = "rock"
  /\ initRuns' = <<>>
  /\ hydrated' = 0
  /\ initCalls' = 0
  /\ touchOnce' = TRUE
  /\ pointerOnce' = TRUE
  /\ lastPlay' = [id |-> "none", velocity |-> 0, outcome |-> "none"]
  /\ nPlayed' = 0
  /\ gainParam' = [p \in PadIds |-> Constant(0)]
  /\ chokeTimers' = <<>>
  /\ chokedAt' = -1
  /\ pressTimer' = [p \in PadIds |-> 0]
  /\ isLong' = [p \in PadIds |-> FALSE]
  /\ pendingPress' = {}
  /\ handles' = 0
  /\ pressStart' = [p \in PadIds |-> -1]
  /\ accentHeld' = -1
  /\ isMetronomeOn' = FALSE
  /\ bpm' = 120
  /\ nextTick' = 0
  /\ clicks' = <<>>
  /\ schedTimers' = <<>>
  /\ periodStart' = 0
  /\ periodFrom' = 0
  /\ steadyTempo' = TRUE
  /\ recording' = FALSE
  /\ recorders' = <<>>
  /\ chunks' = <<>>
  /\ recTicks' = <<>>
  /\ recFaults' = 0
  /\ blobs' = <<>>
  /\ playback' = 0
  /\ ctlDisabled' = TRUE
  /\ notSupported' = 0
  /\ cleared' = FALSE
  /\ fetches' = <<>>
  /\ downloads' = <<>>
  /\ idleCalls' = 0
  /\ mixed' = [p \in PadIds |-> -1]
  /\ UNCHANGED <<now, supported, stored, lastSaved>>

\* -------------------------------------------------------------- recorder
\* (the last supported entry instead of the first)
preferredMime_lastSupported ==
  LET ok == {i \in 1..Len(types) : types[i] \in supported}
  IN IF ok = {} THEN ""
     ELSE types[CHOOSE i \in ok : \A j \in ok : i >= j]

\* lines 422-425: the first supported entry of `types`, or ''
preferredMime ==
  LET ok == {i \in 1..Len(types) : types[i] \in supported}
  IN IF ok = {} THEN ""
     ELSE types[CHOOSE i \in ok : \A j \in ok : i <= j]

\* new MediaRecorder(stream, {mimeType: m}) throws NotSupportedError for a
\* type the platform does not support; '' asks for the platform's default
constructorThrows(m) == m # "" /\ m \notin supported

\* the encoding a platform that supports none of `types` records in
platformDefault == "audio/wav"

\* recorder.mimeType once recording: the type asked for, or the default
negotiated(m) == IF m = "" THEN platformDefault ELSE m

\* state.recorder.stop(): a recording recorder turns inactive and queues its
\* dataavailable and stop events; on no recorder or an inactive one the
\* call is a fault
recorderStop(byCap) ==
  LET i == Len(recorders)
  IN IF i = 0 \/ recorders[i].state # "recording"
       THEN /\ recFaults' = recFaults + 1
            /\ UNCHANGED recorders
       ELSE /\ recorders' = [recorders EXCEPT ![i] =
                  [@ EXCEPT !.state = "inactive", !.stops = @ + 1,
                            !.stoppedAt = now, !.pending = TRUE,
                            !.byCap = byCap]]
            /\ UNCHANGED recFaults

\* (the flag is left set)
stopRecording_flagKept(byCap) ==
  IF ~recording THEN UNCHANGED <<recording, recorders, recFaults>>
  ELSE /\ recording' = recording
       /\ recorderStop(byCap)

\* lines 400-405; byCap tells the poll's call from the button's
stopRecording(byCap) ==
  IF ~recording THEN UNCHANGED <<recording, recorders, recFaults>>
  ELSE /\ recording' = FALSE
       /\ recorderStop(byCap)

\* lines 380-398, with the first, synchronous call of tick: sec is 0, so
\* the poll timer is armed
startRecording ==
  IF recording
    THEN UNCHANGED <<recording, recorders, chunks, recTicks, notSupported>>
  ELSE IF constructorThrows(preferredMime)
    THEN /\ notSupported' = notSupported + 1
         /\ UNCHANGED <<recording, recorders, chunks, recTicks>>
  ELSE /\ recorders' = Append(recorders,
            [state |-> "recording", asked |-> preferredMime,
             mimeType |-> negotiated(preferredMime),
             starts |-> 1, stops |-> 0, startedAt |-> now, stoppedAt |-> -1,
             pending |-> FALSE, byCap |-> FALSE])
       /\ chunks' = <<>>
       /\ recording' = TRUE
       /\ recTicks' = Append(recTicks, [started |-> now, due |-> now + recPoll])
       /\ UNCHANGED notSupported

\* the record button (lines 371-374)
RecToggle ==
  /\ input("rec")
  /\ IF ~ctx
       THEN initAudio /\ gainParam' = gainsAfterInit(gainParam)
       ELSE UNCHANGED <<audioVars, gainParam>>
  /\ IF recording
       THEN stopRecording(FALSE) /\ UNCHANGED <<chunks, recTicks, notSupported>>
       ELSE startRecording /\ UNCHANGED recFaults
  /\ UNCHANGED <<now, kit, touchOnce, pointerOnce, playVars, pressVars,
                 metroVars, supported, blobs, playback, ctlDisabled, cleared,
                 fetches, downloads, idleCalls, uiVars>>

\* the poll timer fires (lines 390-396)
RecTick_lateCap ==
  /\ recTicks # <<>>
  /\ now >= Head(recTicks).due
  /\ LET t == Head(recTicks)
         sec == (now - t.started) \div 1000
     IN IF ~recording
          THEN /\ recTicks' = Tail(recTicks)
               /\ UNCHANGED <<recording, recorders, recFaults>>
          ELSE IF sec > maxRecSec
            THEN /\ stopRecording(TRUE)
                 /\ recTicks' = Tail(recTicks)
            ELSE /\ recTicks' = Append(Tail(recTicks),
                        [started |-> t.started, due |-> now + recPoll])
                 /\ UNCHANGED <<recording, recorders, recFaults>>
  /\ UNCHANGED <<now, audioVars, kit, touchOnce, pointerOnce, playVars,
                 nInputs, budget, gainParam, pressVars, metroVars, supported,
                 chunks, blobs, playback, ctlDisabled, notSupported, cleared,
                 fetches, downloads, idleCalls, uiVars>>

RecTick ==
  /\ recTicks # <<>>
  /\ now >= Head(recTicks).due
  /\ LET t == Head(recTicks)
         sec == (now - t.started) \div 1000
     IN IF ~recording
          THEN /\ recTicks' = Tail(recTicks)
               /\ UNCHANGED <<recording, recorders, recFaults>>
          ELSE IF sec >= maxRecSec
            THEN /\ stopRecording(TRUE)
                 /\ recTicks' = Tail(recTicks)
            ELSE /\ recTicks' = Append(Tail(recTicks),
                        [started |-> t.started, due |-> now + recPoll])
                 /\ UNCHANGED <<recording, recorders, recFaults>>
  /\ UNCHANGED <<now, audioVars, kit, touchOnce, pointerOnce, playVars,
                 nInputs, budget, gainParam, pressVars, metroVars, supported,
                 chunks, blobs, playback, ctlDisabled, notSupported, cleared,
                 fetches, downloads, idleCalls, uiVars>>

RECURSIVE totalSize(_)
totalSize(cs) == IF cs = <<>> THEN 0 ELSE Head(cs).size + totalSize(Tail(cs))

\* the events a stopped recorder queued are delivered in one task:
\* dataavailable (line 384) with the data recorded, whose size grows with
\* the time recorded and, for no time at all, is `empty` (0 or 1) as the
\* platform has it; then stop, handled by onRecStop (lines 407-413)
RecStopEvents(i, empty) ==
  /\ i \in 1..Len(recorders)
  /\ recorders[i].pending
  /\ LET r == recorders[i]
         size == IF r.stoppedAt > r.startedAt THEN r.stoppedAt - r.startedAt
                 ELSE empty
         cs == IF size > 0
                 THEN Append(chunks, [rec |-> i, size |-> size, type |-> r.mimeType])
                 ELSE chunks
     IN /\ r.stoppedAt > r.startedAt => empty = 1
        /\ chunks' = cs
        /\ blobs' = Append(blobs,
              [of |-> i, parts |-> cs, size |-> totalSize(cs),
               type |-> IF cs # <<>> /\ cs[1].type # "" THEN cs[1].type
                        ELSE "audio/webm"])
        /\ playback' = Len(blobs) + 1
        /\ ctlDisabled' = FALSE
        /\ cleared' = FALSE
  /\ recorders' = [recorders EXCEPT ![i] = [@ EXCEPT !.pending = FALSE]]
  /\ UNCHANGED <<now, audioVars, kit, touchOnce, pointerOnce, playVars,
                 nInputs, budget, gainParam, pressVars, metroVars, supported,
                 recording, recTicks, recFaults, notSupported, fetches,
                 downloads, idleCalls, uiVars>>

\* (the source is kept)
clearRecording_srcKept ==
  /\ playback' = playback
  /\ ctlDisabled' = TRUE
  /\ cleared' = TRUE
  /\ idleCalls' = 0

\* lines 415-420
clearRecording ==
  /\ playback' = 0
  /\ ctlDisabled' = TRUE
  /\ cleared' = TRUE
  /\ idleCalls' = 0

\* clearRecording is called: the clear button, or a direct call
ClearClick ==
  /\ input("file")
  /\ clearRecording
  /\ UNCHANGED <<now, audioVars, kit, touchOnce, pointerOnce, playVars,
                 gainParam, pressVars, metroVars, supported, recording,
                 recorders, chunks, recTicks, recFaults, blobs, notSupported,
                 fetches, downloads, uiVars>>

\* lines 427-429: without a source nothing happens, else the blob behind
\* playback.src is fetched
downloadRecording ==
  IF playback = 0
    THEN /\ idleCalls' = idleCalls + 1
         /\ UNCHANGED fetches
    ELSE /\ fetches' = Append(fetches, playback)
         /\ UNCHANGED idleCalls

\* downloadRecording is called: the download button, or a direct call
DownloadClick ==
  /\ input("file")
  /\ downloadRecording
  /\ UNCHANGED <<now, audioVars, kit, touchOnce, pointerOnce, playVars,
                 gainParam, pressVars, metroVars, supported, recording,
                 recorders, chunks, recTicks, recFaults, blobs, playback,
                 ctlDisabled, notSupported, cleared, downloads, uiVars>>

\* String.prototype.includes on the MIME types that occur
includes(type, part) ==
  \/ part = "mp4" /\ type = "audio/mp4"
  \/ part = "ogg" /\ type = "audio/ogg;codecs=opus"

\* line 431
ext(type) ==
  IF includes(type, "mp4") THEN "m4a"
  ELSE IF includes(type, "ogg") THEN "ogg"
  ELSE "webm"

\* the fetch of downloadRecording resolves (lines 429-435): the file is
\* named pocket-drums-<Date.now()>.<ext> and downloaded
FetchDone ==
  /\ fetches # <<>>
  /\ downloads' = Append(downloads,
        [blob |-> Head(fetches), name |-> "pocket-drums", ms |-> now,
         ext |-> ext(blobs[Head(fetches)].type)])
  /\ fetches' = Tail(fetches)
  /\ UNCHANGED <<now, audioVars, kit, touchOnce, pointerOnce, playVars,
                 nInputs, budget, gainParam, pressVars, metroVars, supported,
                 recording, recorders, chunks, recTicks, recFaults, blobs,
                 playback, ctlDisabled, notSupported, cleared, idleCalls,
                 uiVars>>

\* ------------------------------------------------------------------ time
\* (a runScheduler timer may fire up to six poll intervals late)
Tick_lateWake(d, limit) ==
  /\ now + d <= limit
  /\ \A i \in 1..Len(schedTimers) : now + d <= schedTimers[i] + 6 * lookahead
  /\ \A i \in 1..Len(chokeTimers) : now + d <= chokeTimers[i]
  /\ \A t \in pendingPress : now + d <= t.due
  /\ \A i \in 1..Len(recTicks) : now + d <= recTicks[i].due
  /\ now' = now + d
  /\ UNCHANGED <<audioVars, kit, touchOnce, pointerOnce, playVars, nInputs,
                 budget, gainParam, pressVars, metroVars, recVars, uiVars>>

\* d ms pass; no pending timer is overdue afterwards: a runScheduler timer
\* fires at most two poll intervals after it was armed, every other timer
\* when it is due
Tick(d, limit) ==
  /\ now + d <= limit
  /\ \A i \in 1..Len(schedTimers) : now + d <= schedTimers[i] + 2 * lookahead
  /\ \A i \in 1..Len(chokeTimers) : now + d <= chokeTimers[i]
  /\ \A t \in pendingPress : now + d <= t.due
  /\ \A i \in 1..Len(recTicks) : now + d <= recTicks[i].due
  /\ now' = now + d
  /\ UNCHANGED <<audioVars, kit, touchOnce, pointerOnce, playVars, nInputs,
                 budget, gainParam, pressVars, metroVars, recVars, uiVars>>

\* -------------------------------------------------------- specifications
\* the trigger engine and the signal graph: every input that reaches
\* playPad or initAudio, all within one instant; the metronome and record
\* buttons are clicked while the click still has the graph to build
MetroUnlock == ~ctx /\ MetroToggle

RecUnlock == ~ctx /\ RecToggle

NextAudio ==
  \/ \E id \in InputPads, f \in Forces : PadTouchStart(id, f)
  \/ \E id \in InputPads, pt \in PointerTypes : PadPointerDown(id, pt)
  \/ \E id \in InputPads : PadKeyDown(id)
  \/ \E id \in InputPads : DocKeyDown(id)
  \/ DocTouchStart
  \/ \E pt \in PointerTypes : DocPointerDown(pt)
  \/ KitSwitch
  \/ MetroUnlock
  \/ RecUnlock
  \/ \E i \in 1..2 : InitResume(i)

SpecAudio == Init /\ [][NextAudio]_vars

\* the metronome over MaxTime ms
NextMetro ==
  \/ MetroToggle
  \/ SchedulerWake
  \/ \E b \in Tempos : TempoInput(b)
  \/ \E i \in 1..2 : InitResume(i)
  \/ Tick(lookahead, MaxTime)

SpecMetro == Init /\ [][NextMetro]_vars

\* the hi-hat choke, in steps of half its time constant: the graph is
\* built by a touch, then pad keys are pressed
NextChoke ==
  \/ DocTouchStart
  \/ \E i \in 1..2 : InitResume(i)
  \/ \E id \in InputPads : DocKeyDown(id)
  \/ ChokeRestore
  \/ Tick(chokeTau \div 2, MaxChokeTime)

SpecChoke == Init /\ [][NextChoke]_vars

\* the mixer and the hi-hat choke together
NextMixer ==
  \/ DocTouchStart
  \/ \E i \in 1..2 : InitResume(i)
  \/ \E id \in InputPads : DocKeyDown(id)
  \/ \E id \in InputPads, v \in MixLevels : MixerInput(id, v)
  \/ ChokeRestore
  \/ Tick(chokeRestoreMs \div 2, MaxChokeTime)

SpecMixer == Init /\ [][NextMixer]_vars

\* presses and releases of two pads, in steps of half the long-press
\* time; the touches report no force
PressPads == {"kick", "hatC"}

NextPress ==
  \/ \E id \in PressPads : PadTouchStart(id, 0)
  \/ \E id \in PressPads, pt \in PointerTypes : PadPointerDown(id, pt)
  \/ \E id \in PressPads : PadKeyDown(id)
  \/ \E id \in PressPads : PadEnd(id)
  \/ PressTimerFire
  \/ \E i \in 1..2 : InitResume(i)
  \/ Tick(longPressMs \div 2, MaxPressTime)

SpecPress == Init /\ [][NextPress]_vars

\* the recorder up to its cap and beyond: the record button is clicked in
\* the first EarlyClicks ms and from one poll interval before the cap on
ClickRec ==
  /\ now <= EarlyClicks \/ now >= maxRecSec * 1000 - recPoll
  /\ RecToggle

NextRec ==
  \/ ClickRec
  \/ RecTick
  \/ \E i \in 1..MaxRecToggles, empty \in {0, 1} : RecStopEvents(i, empty)
  \/ \E i \in 1..2 : InitResume(i)
  \/ Tick(recPoll, MaxRecTime)

SpecRec == Init /\ [][NextRec]_vars

\* the metronome over ten seconds and more: the button is clicked and the
\* tempo set in the first ToggleBy ms only, then the scheduler runs on
EarlyToggle == now <= ToggleBy /\ MetroToggle

EarlyTempo(b) == now <= ToggleBy /\ TempoInput(b)

NextWindow ==
  \/ EarlyToggle
  \/ \E b \in Tempos : EarlyTempo(b)
  \/ SchedulerWake
  \/ \E i \in 1..2 : InitResume(i)
  \/ Tick(lookahead, MaxWindowTime)

SpecWindow == Init /\ [][NextWindow]_vars

\* the recording from the record button to the downloaded file, on every
\* platform: each set of supported encodings
InitPlatform == \E s \in SUBSET MimeTypes : Boot(s, null)

NextFile ==
  \/ RecToggle
  \/ RecTick
  \/ \E i \in 1..MaxRecToggles, empty \in {0, 1} : RecStopEvents(i, empty)
  \/ ClearClick
  \/ DownloadClick
  \/ FetchDone
  \/ \E i \in 1..2 : InitResume(i)
  \/ Tick(recPoll, MaxFileTime)

SpecFile == InitPlatform /\ [][NextFile]_vars

\* the latency setting across page loads, whatever localStorage held at
\* the first one
InitStored == \E st \in StoredTexts : Boot(MimeTypes, st)

NextLatency ==
  \/ \E v \in FieldTexts \cup {String(latencyMs)} : SaveLatency(v)
  \/ Reload

SpecLatency == InitStored /\ [][NextLatency]_vars

\* ---------------------------------------------------------------- claims
\* the clicks of the current Running period, in the order scheduled
periodClicks == SubSeq(clicks, periodFrom + 1, Len(clicks))

\* the number of clicks of the period in the closed window [w, w + len]
inWindow(w, len) ==
  Cardinality({k \in 1..Len(periodClicks) :
                 w <= periodClicks[k] /\ periodClicks[k] <= w + len})

\* C1: within one Running period at a constant tempo the clicks scheduled
\* are exactly seed + k * (60 / bpm), k = 0, 1, 2, .., with
\* seed = the clock time of the toggle + 50 ms: none is missing up to the
\* scheduling horizon and none is duplicated, however the wakes are
\* delayed within two poll intervals; at 120 bpm every ten-second window
\* of the scheduled stretch holds 20 (+/- 1) clicks, 500 ms apart.
C1_ClicksOnGrid ==
  (isMetronomeOn /\ steadyTempo) =>
    LET n == Len(periodClicks)
        seed == periodStart + leadIn
        beat == 60000 \div bpm
    IN /\ \A k \in 1..n : periodClicks[k] = seed + (k - 1) * beat
       /\ nextTick = seed + n * beat
       /\ nextTick >= now + scheduleAheadTime - 2 * lookahead
       /\ bpm = 120 =>
            /\ \A k \in 1..(n - 1) : periodClicks[k + 1] - periodClicks[k] = 500
            /\ \A k \in 1..n : \A o \in {0, 1, 499} :
                 LET w == periodClicks[k] + o
                 IN w + 10000 <= periodClicks[n] => inWindow(w, 10000) \in 19..21

\* C1's case: a Running period at 120 bpm, served by two scheduler loops
\* at once, that has scheduled more than ten seconds of clicks
C1_Witness ==
  /\ isMetronomeOn
  /\ bpm = 120
  /\ Len(schedTimers) = 2
  /\ Len(periodClicks) >= 22
  /\ inWindow(periodClicks[1], 10000) = 21

\* C2: no click is scheduled in a step that ends with the metronome
\* Stopped (the stopping step and every step while it stays Stopped), and
\* no step removes or alters a click already scheduled.
C2_StoppedSchedulesNothing ==
  [][/\ ~isMetronomeOn' => clicks' = clicks
     /\ Len(clicks') >= Len(clicks)
     /\ SubSeq(clicks', 1, Len(clicks)) = clicks]_vars

\* C2's case: the metronome was stopped with clicks scheduled, and the
\* pending scheduler timer has fired since
C2_Witness ==
  /\ ~isMetronomeOn
  /\ clicks # <<>>
  /\ schedTimers = <<>>
  /\ now >= periodStart + lookahead

\* C3: at most one runScheduler timer is pending at any time.
C3_OneSchedulerTimer == Len(schedTimers) <= 1

\* C4: a tempo input changes neither the clicks already scheduled nor
\* state.nextTick; a scheduler wake schedules its first click at the
\* nextTick computed before, and spaces and advances by 60 / bpm of the
\* tempo in force at that wake.
C4_TempoFromNextBeat ==
  [][/\ bpm' # bpm => (clicks' = clicks /\ nextTick' = nextTick)
     /\ (isMetronomeOn' = isMetronomeOn /\ clicks' # clicks) =>
          /\ clicks'[Len(clicks) + 1] = nextTick
          /\ \A k \in (Len(clicks) + 1)..(Len(clicks') - 1) :
               clicks'[k + 1] - clicks'[k] = 60000 \div bpm
          /\ nextTick' = nextTick + (Len(clicks') - Len(clicks)) * (60000 \div bpm)]_vars

\* C4's case: the tempo changed during a Running period; the click
\* scheduled after the change kept the spacing computed before it, and
\* the next one is a beat of the new tempo later
C4_Witness ==
  /\ isMetronomeOn
  /\ ~steadyTempo
  /\ Len(periodClicks) >= 2
  /\ nextTick - periodClicks[Len(periodClicks)] = 60000 \div bpm
  /\ periodClicks[Len(periodClicks)] - periodClicks[Len(periodClicks) - 1]
       # 60000 \div bpm

\* the level of the open hi-hat's gain at clock time t
hatOLevel(t) == ValueAt(gainParam["hatO"], t)

\* C5: playPad never throws: with the active kit's buffers not ready it
\* returns without effect.
C5_PlayPadNeverThrows == lastPlay.outcome \in {"none", "noop", "played"}

\* C6: 10 ms after a successful hatC or hatP trigger the open hi-hat's
\* gain is below 0.001, and 50 ms after it the gain is back at its
\* default, 0.6.
C6_ChokeLevels ==
  chokedAt >= 0 =>
    /\ now = chokedAt + 10 => hatOLevel(now) < 10
    /\ now = chokedAt + 50 => hatOLevel(now) = defaultPadGain("hatO")

\* the time recorder i spent recording, once it is stopped
recorded(i) == recorders[i].stoppedAt - recorders[i].startedAt

\* C7: no recording is in the Recording state later than the 60 s cap
\* plus one poll interval after its start; a recording that reached the
\* cap was stopped by the poll, state.recording is false while it is the
\* latest one, and the blob its stop callback builds has a size above 0.
C7_CapStops ==
  /\ recording =>
       now - recorders[Len(recorders)].startedAt <= maxRecSec * 1000 + recPoll
  /\ \A i \in 1..Len(recorders) :
       (recorders[i].stops > 0 /\ recorded(i) >= maxRecSec * 1000) =>
         /\ recorded(i) <= maxRecSec * 1000 + recPoll
         /\ i = Len(recorders) => ~recording
  /\ \A k \in 1..Len(blobs) :
       recorded(blobs[k].of) >= maxRecSec * 1000 => blobs[k].size > 0

\* C7's case: a recording ran into the cap, the poll stopped it, and its
\* stop callback has built the blob
C7_Witness ==
  \E k \in 1..Len(blobs) :
    /\ recorders[blobs[k].of].byCap
    /\ recorded(blobs[k].of) = maxRecSec * 1000
    /\ blobs[k].size > 0
    /\ playback = k
    /\ ~recording

\* C8: every MediaRecorder is started exactly once and stopped at most
\* once, stop() is never called on an absent or inactive recorder, and
\* state.recording is true exactly while the latest recorder records.
C8_RecorderLifecycle ==
  /\ recFaults = 0
  /\ \A i \in 1..Len(recorders) :
       /\ recorders[i].starts = 1
       /\ recorders[i].stops <= 1
       /\ recorders[i].state = "recording" <=> (recorders[i].stops = 0)
       /\ recorders[i].state = "recording" => (i = Len(recorders) /\ recording)
  /\ recording =>
       (recorders # <<>> /\ recorders[Len(recorders)].state = "recording")

\* C8's case: the button stopped a recording at the cap, ahead of the
\* poll that was due to stop it, and that poll has fired since
C8_Witness ==
  /\ recTicks = <<>>
  /\ \E i \in 1..Len(recorders) :
       /\ recorders[i].stops = 1
       /\ ~recorders[i].byCap
       /\ recorded(i) >= maxRecSec * 1000

\* C9: one AudioContext, one master gain, one recording tap and one gain
\* node per pad exist once initAudio was called, none before, however
\* often and whenever it is called; at most one call is ever suspended
\* and hydrateMixer runs at most once.
C9_GraphBuiltOnce ==
  LET n == IF initCalls >= 1 THEN 1 ELSE 0
  IN /\ ctx <=> initCalls >= 1
     /\ created.AudioContext = n
     /\ created.master = n
     /\ created.recDest = n
     /\ \A p \in PadIds : created.padGain[p] = n
     /\ Len(initRuns) <= 1
     /\ hydrated <= 1

\* C9's case: initAudio was called again while the first call was still
\* suspended at its first await
C9_Witness ==
  /\ initCalls >= 2
  /\ initRuns = <<"rock">>
  /\ created.AudioContext = 1

\* C10: once a first touch, pointer or key event or a metronome or record
\* click has been handled, state.ctx is set, and with no initAudio call
\* suspended both kits are in state.buffers.
C10_FirstInputUnlocks ==
  nInputs >= 1 => (ctx /\ (initRuns = <<>> => buffers = Kits))

\* C11: from clearRecording until the next onRecStop the playback element
\* has no source and the play, download and clear controls are disabled,
\* and a downloadRecording call in that stretch starts no fetch and
\* downloads nothing.
C11_ClearedStaysEmpty ==
  [][/\ cleared' => (playback' = 0 /\ ctlDisabled')
     /\ (cleared /\ idleCalls' # idleCalls) =>
          (fetches' = fetches /\ downloads' = downloads)
     /\ (cleared /\ cleared') => Len(fetches') <= Len(fetches)]_vars

\* C11's case: a finalized recording was cleared and downloadRecording was
\* called after that
C11_Witness ==
  /\ cleared
  /\ blobs # <<>>
  /\ idleCalls >= 1
  /\ fetches = <<>>
  /\ downloads = <<>>

\* the extension that goes with an encoding: m4a for mp4, ogg for ogg,
\* webm otherwise
extFor(m) ==
  CASE m = "audio/mp4" -> "m4a"
    [] m = "audio/ogg;codecs=opus" -> "ogg"
    [] OTHER -> "webm"

\* C12: every downloaded file is named pocket-drums-<ms>.<ext> with ext
\* the extension of the encoding negotiated by the recorder whose stop
\* built the blob, whatever the platform supports and however many chunks
\* were captured.
C12_ExtMatchesEncoding ==
  \A k \in 1..Len(downloads) :
    /\ downloads[k].name = "pocket-drums"
    /\ downloads[k].ext = extFor(recorders[blobs[downloads[k].blob].of].mimeType)

\* the entry of `types` that comes first among the supported ones, or ''
firstSupported ==
  IF \A i \in 1..Len(types) : types[i] \notin supported THEN ""
  ELSE CHOOSE t \in supported :
         \E i \in 1..Len(types) :
           /\ types[i] = t
           /\ \A j \in 1..(i - 1) : types[j] \notin supported

\* C13: preferredMime is the first supported entry of the list, '' with
\* none supported; every recorder was constructed with it, and no
\* constructor threw for an unsupported type.
C13_FirstSupportedWins ==
  /\ preferredMime = firstSupported
  /\ notSupported = 0
  /\ \A i \in 1..Len(recorders) :
       /\ recorders[i].asked = firstSupported
       /\ recorders[i].asked = "" <=> supported = {}
       /\ recorders[i].asked # "" => recorders[i].asked \in supported

\* C13's case: a platform supporting none of the encodings, a recording
\* made and finalized there
C13_Witness ==
  /\ supported = {}
  /\ blobs # <<>>
  /\ recorders[blobs[1].of].asked = ""
  /\ blobs[1].size > 0

\* a text that is an integer: digits, with or without a minus sign
isIntegerText(s) ==
  /\ s # null
  /\ LET body == IF s # <<>> /\ Head(s) = "-" THEN Tail(s) ELSE s
     IN body # <<>> /\ \A i \in 1..Len(body) : isDigit(body[i])

\* the integer such a text stands for
intOf(s) ==
  IF Head(s) = "-" THEN 0 - digitsValue(Tail(s), 0) ELSE digitsValue(s, 0)

\* C14: state.latencyMs is a number at all times: the integer saved last
\* if the latency was ever saved, else the integer found in localStorage at
\* the load, and 0 with nothing or no integer stored.
C14_LatencyRoundTrip ==
  /\ ~latencyMs.nan
  /\ latencyMs.n = IF lastSaved.saved THEN lastSaved.n
                   ELSE IF isIntegerText(stored) THEN intOf(stored)
                   ELSE 0

\* C15: every scheduleClick(when) call has when strictly later than the
\* clock at the call, in every Running period and at every tempo, with
\* each runScheduler wake at most two poll intervals after it was armed.
C15_ClicksAhead ==
  [][\A k \in (Len(clicks) + 1)..Len(clicks') : clicks'[k] > now']_vars

\* C15's case: a period at 240 bpm that has scheduled three clicks, with
\* two scheduler loops alive
C15_Witness ==
  /\ isMetronomeOn
  /\ bpm = 240
  /\ Len(periodClicks) >= 3
  /\ Len(schedTimers) = 2
  /\ nextTick > now + lookahead

\* C16: from a successful hatC or hatP trigger until 30 ms after it the
\* open hi-hat's gain is heading for 0.0001: no restore of an earlier
\* choke changes its target in between.
C16_ChokeSupersedes ==
  (chokedAt >= 0 /\ now < chokedAt + chokeRestoreMs) =>
    gainParam["hatO"].target = chokeTarget

\* C17: with no choke timer pending, every pad's gain is at, or heading
\* for, the level the mixer set last for it, or its default if the mixer
\* never set it.
C17_MixerLastWriteWins ==
  (ctx /\ chokeTimers = <<>>) =>
    \A p \in PadIds :
      gainParam[p].target = IF mixed[p] >= 0 THEN mixed[p] ELSE defaultPadGain(p)

\* C18: at most one elapsed-time poll timer is pending at any time, and
\* the poll stops a recording only when that recording itself has run for
\* the 60 s of the cap.
C18_PollOwnRecording ==
  /\ Len(recTicks) <= 1
  /\ \A i \in 1..Len(recorders) :
       recorders[i].byCap => recorded(i) >= maxRecSec * 1000

\* C19: the blob built by a recorder's stop event holds the chunks of that
\* recorder and no others: each part comes from it, and its data, when not
\* empty, is among the parts.
C19_BlobOwnChunks ==
  \A k \in 1..Len(blobs) :
    /\ \A j \in 1..Len(blobs[k].parts) : blobs[k].parts[j].rec = blobs[k].of
    /\ recorded(blobs[k].of) > 0 =>
         \E j \in 1..Len(blobs[k].parts) : blobs[k].parts[j].rec = blobs[k].of

\* C20: the end handler plays the accent only for a press held for
\* longPressMs or longer: the latest start on the pad is at least 220 ms
\* before the end event that played the accent.
C20_AccentOnlyAfterLongPress ==
  accentHeld # -1 => accentHeld >= longPressMs

====
